---- MODULE Spec2Model ----
(***************************************************************************)
(* The session controller of frontend/app/page.js (the Home component):    *)
(* its React state, the user actions its JSX makes available, its three    *)
(* Gateway calls and the continuations that run when a call completes.     *)
(*                                                                         *)
(* A JavaScript string is a sequence of fragments (TLA+ strings), so that  *)
(* concatenation is \o and trim() works on characters; sessionId and the   *)
(* URL, which the code only tests for emptiness, are plain TLA+ strings.   *)
(*                                                                         *)
(* The capture pipeline of the Electron main process (the global hotkey    *)
(* callback) shares no state with the page; it has a specification of its  *)
(* own, CaptureSpec, over its own variables.                               *)
(***************************************************************************)
EXTENDS Integers, Sequences, FiniteSets, Bags, TLC

VARIABLES
  youtubeUrl,       \* page.js:9
  sessionId,        \* page.js:10
  subject,          \* page.js:11
  loading,          \* page.js:12
  chatHistory,      \* page.js:13
  message,          \* page.js:14
  suggestions,      \* page.js:15
  showSuggestions,  \* page.js:16
  inflight,         \* the bag of fetch() calls issued and not yet completed
  lastEvent,        \* the handler that ran last, with what it received and showed
  presses,          \* how many times the hotkey callback has been invoked
  triggers,         \* per invocation of the hotkey callback: where it is
  arrived,          \* the invocations whose response body arrived, in that order
  notifications,    \* what webContents.send has sent, in order
  unhandled         \* promise rejections nothing handled, in order

pageVars == <<youtubeUrl, sessionId, subject, loading, chatHistory, message,
              suggestions, showSuggestions, inflight, lastEvent>>

captureVars == <<presses, triggers, arrived, notifications, unhandled>>

vars == <<pageVars, captureVars>>

(***************************************************************************)
(* Bounds of the model.                                                    *)
(***************************************************************************)
\* Gateway calls that may be outstanding at once.
MaxInflight == 2
\* Longest chatHistory the model lets sendMessage build.
MaxHistory == 3
\* Hotkey presses in one run of the capture pipeline.
MaxTriggers == 3

(***************************************************************************)
(* Values.                                                                 *)
(***************************************************************************)
null == [isNull |-> TRUE]

NoCall == [op |-> "none"]

NoOutcome == [kind |-> "none"]

NoAlert == <<>>

\* Texts the user can have in the message input.
Texts == {<<>>, <<" ">>, <<"w", "h", "y", "?">>}

\* URLs the user can type into the URL input (page.js:189).
TypedUrls == {"", "https://www.youtube.com/watch?v=kqtD5dpn9C8"}

\* The two example buttons (page.js:206, page.js:212).
ExampleUrls == {"https://www.youtube.com/watch?v=kqtD5dpn9C8",
                "https://www.youtube.com/watch?v=yKm4YXMPVYM"}

\* What the Gateway can answer.
SessionIds == {"s1", "s2"}

Subjects ==
  {[subject |-> <<"coding">>, topic |-> <<"Loops">>, level |-> <<"beginner">>,
    concepts |-> <<"for", "while">>]}

\* suggested_questions of an analyze response, when the field is present.
SuggestedQuestionLists == {<<<<"Why?">>>>}

\* suggestions of a suggest response.
SuggestionLists == {<<>>, <<<<"How?">>, <<"Why?">>>>}

Answers == {<<"Because.">>}

Details == {<<"rate limited">>}

TransportErrors == {<<"Failed to fetch">>}

Json(data) == [kind |-> "json", data |-> data]

Reject(msg) == [kind |-> "reject", message |-> msg]

\* { success: false, detail?: string }, or fetch() or response.json() throws.
\* Only analyzeContent reads detail.
FailureOutcomes ==
  {Json([success |-> FALSE])} \cup {Reject(m) : m \in TransportErrors}

AnalyzeOutcomes ==
  {Json([success |-> TRUE, session_id |-> s, subject |-> sub]) :
       s \in SessionIds, sub \in Subjects}
    \cup {Json([success |-> TRUE, session_id |-> s, subject |-> sub,
                suggested_questions |-> q]) :
            s \in SessionIds, sub \in Subjects, q \in SuggestedQuestionLists}
    \cup {Json([success |-> FALSE, detail |-> d]) : d \in Details}
    \cup FailureOutcomes

ChatOutcomes ==
  {Json([success |-> TRUE, response |-> a]) : a \in Answers} \cup FailureOutcomes

SuggestOutcomes ==
  {Json([success |-> TRUE, suggestions |-> q]) : q \in SuggestionLists}
    \cup FailureOutcomes

(***************************************************************************)
(* Pure helpers.                                                           *)
(***************************************************************************)
IsSpace(ch) == ch = " "

RECURSIVE TrimStart(_)
TrimStart(s) ==
  IF s = <<>> THEN s
  ELSE IF IsSpace(Head(s)) THEN TrimStart(Tail(s)) ELSE s

RECURSIVE TrimEnd(_)
TrimEnd(s) ==
  IF s = <<>> THEN s
  ELSE IF IsSpace(s[Len(s)]) THEN TrimEnd(SubSeq(s, 1, Len(s) - 1)) ELSE s

\* String.prototype.trim
Trim(s) == TrimEnd(TrimStart(s))

\* messageText || message, where args is the argument list of the call
TextToSend(args) ==
  IF args = <<>> \/ args[1] = <<>> THEN message ELSE args[1]

\* The template literal of the welcome message.
WelcomeContent(data) ==
  <<"Great! I've analyzed this ">> \o data.subject.subject
    \o <<" tutorial about \"">> \o data.subject.topic
    \o <<"\". I'm ready to help you learn! Ask me anything or use the suggestions below. ">>

\* data.suggested_questions || []
SuggestedQuestions(data) ==
  IF "suggested_questions" \in DOMAIN data THEN data.suggested_questions ELSE <<>>

\* 'Error: ' + (data.detail || 'Unknown error')
AnalyzeErrorAlert(data) ==
  <<"Error: ">> \o (IF "detail" \in DOMAIN data /\ data.detail # <<>>
                      THEN data.detail ELSE <<"Unknown error">>)

Succeeded(outcome) == outcome.kind = "json" /\ outcome.data.success

Event(handler, call, outcome, alert, logged) ==
  [handler |-> handler, call |-> call, outcome |-> outcome,
   alert |-> alert, logged |-> logged]

Quiet(handler) == Event(handler, NoCall, NoOutcome, NoAlert, FALSE)

(***************************************************************************)
(* fetch(): the call is outstanding until its response is handled.         *)
(***************************************************************************)
NewCall(op, body) == [op |-> op, body |-> body]

Outstanding == BagCardinality(inflight)

Fetch(op, body) ==
  /\ Outstanding < MaxInflight
  /\ inflight' = inflight (+) SetToBag({NewCall(op, body)})

\* The call completes: its continuation runs and the call is outstanding no more.
Settle(c) == inflight' = inflight (-) SetToBag({c})

ChatsInflight == BagCardinality([c \in {d \in BagToSet(inflight) : d.op = "chat"} |-> inflight[c]])

(***************************************************************************)
(* The controller's functions, up to their await.                          *)
(***************************************************************************)
analyzeContent ==
  IF youtubeUrl = ""
    THEN /\ lastEvent' = Quiet("analyzeContent:return")
         /\ UNCHANGED <<youtubeUrl, sessionId, subject, loading, chatHistory,
                        message, suggestions, showSuggestions, inflight>>
    ELSE /\ loading' = TRUE
         /\ chatHistory' = <<>>
         /\ suggestions' = <<>>
         /\ subject' = null
         /\ Fetch("analyze", [url |-> youtubeUrl])
         /\ lastEvent' = Event("analyzeContent", NewCall("analyze", [url |-> youtubeUrl]),
                               NoOutcome, NoAlert, FALSE)
         /\ UNCHANGED <<youtubeUrl, sessionId, message, showSuggestions>>

\* if (!textToSend.trim() || !sessionId) return;
ReturnsEarly(args) == Trim(TextToSend(args)) = <<>> \/ sessionId = ""

\* sendMessage as it would be if the user Turn were not appended before the call.
sendMessageWithoutAppend(args) ==
  LET textToSend == TextToSend(args)
      body == [session_id |-> sessionId, message |-> textToSend, screenshot |-> <<>>]
  IN IF ReturnsEarly(args)
       THEN /\ lastEvent' = Quiet("sendMessage:return")
            /\ UNCHANGED <<youtubeUrl, sessionId, subject, loading, chatHistory,
                           message, suggestions, showSuggestions, inflight>>
       ELSE /\ Len(chatHistory) + ChatsInflight + 2 <= MaxHistory
            /\ message' = <<>>
            /\ loading' = TRUE
            /\ showSuggestions' = FALSE
            /\ Fetch("chat", body)
            /\ lastEvent' = Event("sendMessage", NewCall("chat", body),
                                  NoOutcome, NoAlert, FALSE)
            /\ UNCHANGED <<youtubeUrl, sessionId, subject, suggestions, chatHistory>>

\* sendMessage as it would be if it tested the text without trimming it.
sendMessageWithoutTrim(args) ==
  LET textToSend == TextToSend(args)
      body == [session_id |-> sessionId, message |-> textToSend, screenshot |-> <<>>]
  IN IF textToSend = <<>> \/ sessionId = ""
       THEN /\ lastEvent' = Quiet("sendMessage:return")
            /\ UNCHANGED <<youtubeUrl, sessionId, subject, loading, chatHistory,
                           message, suggestions, showSuggestions, inflight>>
       ELSE /\ Len(chatHistory) + ChatsInflight + 2 <= MaxHistory
            /\ chatHistory' = Append(chatHistory, [role |-> "user", content |-> textToSend])
            /\ message' = <<>>
            /\ loading' = TRUE
            /\ showSuggestions' = FALSE
            /\ Fetch("chat", body)
            /\ lastEvent' = Event("sendMessage", NewCall("chat", body),
                                  NoOutcome, NoAlert, FALSE)
            /\ UNCHANGED <<youtubeUrl, sessionId, subject, suggestions>>

sendMessage(args) ==
  LET textToSend == TextToSend(args)
      body == [session_id |-> sessionId, message |-> textToSend, screenshot |-> <<>>]
  IN IF ReturnsEarly(args)
       THEN /\ lastEvent' = Quiet("sendMessage:return")
            /\ UNCHANGED <<youtubeUrl, sessionId, subject, loading, chatHistory,
                           message, suggestions, showSuggestions, inflight>>
       ELSE /\ Len(chatHistory) + ChatsInflight + 2 <= MaxHistory
            /\ chatHistory' = Append(chatHistory, [role |-> "user", content |-> textToSend])
            /\ message' = <<>>
            /\ loading' = TRUE
            /\ showSuggestions' = FALSE
            /\ Fetch("chat", body)
            /\ lastEvent' = Event("sendMessage", NewCall("chat", body),
                                  NoOutcome, NoAlert, FALSE)
            /\ UNCHANGED <<youtubeUrl, sessionId, subject, suggestions>>

refreshSuggestions ==
  IF sessionId = ""
    THEN /\ lastEvent' = Quiet("refreshSuggestions:return")
         /\ UNCHANGED <<youtubeUrl, sessionId, subject, loading, chatHistory,
                        message, suggestions, showSuggestions, inflight>>
    ELSE /\ loading' = TRUE
         /\ Fetch("suggest", [session_id |-> sessionId])
         /\ lastEvent' = Event("refreshSuggestions",
                               NewCall("suggest", [session_id |-> sessionId]),
                               NoOutcome, NoAlert, FALSE)
         /\ UNCHANGED <<youtubeUrl, sessionId, subject, chatHistory, message,
                        suggestions, showSuggestions>>

\* clearChat as it would be if the answer of confirm() were ignored.
clearChatUnconditional(confirmed) ==
  /\ sessionId' = ""
  /\ subject' = null
  /\ chatHistory' = <<>>
  /\ suggestions' = <<>>
  /\ youtubeUrl' = ""
  /\ showSuggestions' = FALSE
  /\ lastEvent' = Quiet(IF confirmed THEN "clearChat:confirmed" ELSE "clearChat:declined")
  /\ UNCHANGED <<loading, message, inflight>>

clearChat(confirmed) ==
  IF confirmed
    THEN /\ sessionId' = ""
         /\ subject' = null
         /\ chatHistory' = <<>>
         /\ suggestions' = <<>>
         /\ youtubeUrl' = ""
         /\ showSuggestions' = FALSE
         /\ lastEvent' = Quiet("clearChat:confirmed")
         /\ UNCHANGED <<loading, message, inflight>>
    ELSE /\ lastEvent' = Quiet("clearChat:declined")
         /\ UNCHANGED <<youtubeUrl, sessionId, subject, loading, chatHistory,
                        message, suggestions, showSuggestions, inflight>>

(***************************************************************************)
(* The controller's functions, from their await to their end.  The handler *)
(* runs when the call completes: with the parsed body, or with the error   *)
(* that fetch() or response.json() threw.                                  *)
(***************************************************************************)
\* analyzeContentResume as it would be without setShowSuggestions(true).
analyzeContentResumeKeepsHidden(c, outcome) ==
  /\ Settle(c)
  /\ IF Succeeded(outcome)
       THEN /\ sessionId' = outcome.data.session_id
            /\ subject' = outcome.data.subject
            /\ suggestions' = SuggestedQuestions(outcome.data)
            /\ chatHistory' = <<[role |-> "assistant",
                                 content |-> WelcomeContent(outcome.data)]>>
            /\ lastEvent' = Event("analyzeContent:resume", c, outcome, NoAlert, FALSE)
            /\ UNCHANGED showSuggestions
       ELSE /\ lastEvent' =
                 Event("analyzeContent:resume", c, outcome,
                       IF outcome.kind = "json"
                         THEN AnalyzeErrorAlert(outcome.data)
                         ELSE <<"Error connecting to API: ">> \o outcome.message,
                       FALSE)
            /\ UNCHANGED <<sessionId, subject, suggestions, showSuggestions, chatHistory>>
  /\ loading' = FALSE
  /\ UNCHANGED <<youtubeUrl, message>>

analyzeContentResume(c, outcome) ==
  /\ Settle(c)
  /\ IF Succeeded(outcome)
       THEN /\ sessionId' = outcome.data.session_id
            /\ subject' = outcome.data.subject
            /\ suggestions' = SuggestedQuestions(outcome.data)
            /\ showSuggestions' = TRUE
            /\ chatHistory' = <<[role |-> "assistant",
                                 content |-> WelcomeContent(outcome.data)]>>
            /\ lastEvent' = Event("analyzeContent:resume", c, outcome, NoAlert, FALSE)
       ELSE /\ lastEvent' =
                 Event("analyzeContent:resume", c, outcome,
                       IF outcome.kind = "json"
                         THEN AnalyzeErrorAlert(outcome.data)
                         ELSE <<"Error connecting to API: ">> \o outcome.message,
                       FALSE)
            /\ UNCHANGED <<sessionId, subject, suggestions, showSuggestions, chatHistory>>
  /\ loading' = FALSE
  /\ UNCHANGED <<youtubeUrl, message>>

\* sendMessageResume as it would be with setLoading(false) inside the try block,
\* after the await: an error thrown by the call would skip it.
sendMessageResumeLoadingInTry(c, outcome) ==
  /\ Settle(c)
  /\ IF Succeeded(outcome)
       THEN /\ chatHistory' = Append(chatHistory, [role |-> "assistant",
                                                   content |-> outcome.data.response])
            /\ lastEvent' = Event("sendMessage:resume", c, outcome, NoAlert, FALSE)
       ELSE /\ lastEvent' =
                 Event("sendMessage:resume", c, outcome,
                       IF outcome.kind = "json"
                         THEN <<"Error getting response">>
                         ELSE <<"Error: ">> \o outcome.message,
                       FALSE)
            /\ UNCHANGED chatHistory
  /\ loading' = IF outcome.kind = "reject" THEN loading ELSE FALSE
  /\ UNCHANGED <<youtubeUrl, sessionId, subject, message, suggestions, showSuggestions>>

\* sendMessageResume as it would be if a failed call rolled the user Turn back.
sendMessageResumeRollback(c, outcome) ==
  /\ Settle(c)
  /\ IF Succeeded(outcome)
       THEN /\ chatHistory' = Append(chatHistory, [role |-> "assistant",
                                                   content |-> outcome.data.response])
            /\ lastEvent' = Event("sendMessage:resume", c, outcome, NoAlert, FALSE)
       ELSE /\ lastEvent' =
                 Event("sendMessage:resume", c, outcome,
                       IF outcome.kind = "json"
                         THEN <<"Error getting response">>
                         ELSE <<"Error: ">> \o outcome.message,
                       FALSE)
            /\ chatHistory' = IF chatHistory = <<>> THEN chatHistory
                              ELSE SubSeq(chatHistory, 1, Len(chatHistory) - 1)
  /\ loading' = FALSE
  /\ UNCHANGED <<youtubeUrl, sessionId, subject, message, suggestions, showSuggestions>>

\* sendMessageResume as it would be if it dropped the answer of a call made
\* for a session that is no longer the current one.
sendMessageResumeDiscardsStale(c, outcome) ==
  /\ Settle(c)
  /\ IF Succeeded(outcome)
       THEN /\ chatHistory' = IF c.body.session_id = sessionId
                                THEN Append(chatHistory, [role |-> "assistant",
                                                          content |-> outcome.data.response])
                                ELSE chatHistory
            /\ lastEvent' = Event("sendMessage:resume", c, outcome, NoAlert, FALSE)
       ELSE /\ lastEvent' =
                 Event("sendMessage:resume", c, outcome,
                       IF outcome.kind = "json"
                         THEN <<"Error getting response">>
                         ELSE <<"Error: ">> \o outcome.message,
                       FALSE)
            /\ UNCHANGED chatHistory
  /\ loading' = FALSE
  /\ UNCHANGED <<youtubeUrl, sessionId, subject, message, suggestions, showSuggestions>>

sendMessageResume(c, outcome) ==
  /\ Settle(c)
  /\ IF Succeeded(outcome)
       THEN /\ chatHistory' = Append(chatHistory, [role |-> "assistant",
                                                   content |-> outcome.data.response])
            /\ lastEvent' = Event("sendMessage:resume", c, outcome, NoAlert, FALSE)
       ELSE /\ lastEvent' =
                 Event("sendMessage:resume", c, outcome,
                       IF outcome.kind = "json"
                         THEN <<"Error getting response">>
                         ELSE <<"Error: ">> \o outcome.message,
                       FALSE)
            /\ UNCHANGED chatHistory
  /\ loading' = FALSE
  /\ UNCHANGED <<youtubeUrl, sessionId, subject, message, suggestions, showSuggestions>>

\* refreshSuggestionsResume as it would be if a failed call emptied the list.
refreshSuggestionsResumeClears(c, outcome) ==
  /\ Settle(c)
  /\ IF Succeeded(outcome)
       THEN /\ suggestions' = outcome.data.suggestions
            /\ showSuggestions' = TRUE
            /\ lastEvent' = Event("refreshSuggestions:resume", c, outcome, NoAlert, FALSE)
       ELSE /\ lastEvent' = Event("refreshSuggestions:resume", c, outcome, NoAlert,
                                  outcome.kind = "reject")
            /\ suggestions' = <<>>
            /\ UNCHANGED showSuggestions
  /\ loading' = FALSE
  /\ UNCHANGED <<youtubeUrl, sessionId, subject, chatHistory, message>>

refreshSuggestionsResume(c, outcome) ==
  /\ Settle(c)
  /\ IF Succeeded(outcome)
       THEN /\ suggestions' = outcome.data.suggestions
            /\ showSuggestions' = TRUE
            /\ lastEvent' = Event("refreshSuggestions:resume", c, outcome, NoAlert, FALSE)
       ELSE /\ lastEvent' = Event("refreshSuggestions:resume", c, outcome, NoAlert,
                                  outcome.kind = "reject")
            /\ UNCHANGED <<suggestions, showSuggestions>>
  /\ loading' = FALSE
  /\ UNCHANGED <<youtubeUrl, sessionId, subject, chatHistory, message>>

(***************************************************************************)
(* What the rendered page lets the user do.  An element takes part only    *)
(* while it is rendered and not disabled.                                  *)
(***************************************************************************)
UrlInputChange(u) ==
  /\ sessionId = ""
  /\ youtubeUrl' = u
  /\ lastEvent' = Quiet("setYoutubeUrl")
  /\ UNCHANGED <<sessionId, subject, loading, chatHistory, message, suggestions,
                 showSuggestions, inflight>>

ExampleUrlClick(u) ==
  /\ sessionId = ""
  /\ youtubeUrl' = u
  /\ lastEvent' = Quiet("setYoutubeUrl")
  /\ UNCHANGED <<sessionId, subject, loading, chatHistory, message, suggestions,
                 showSuggestions, inflight>>

UrlInputEnter ==
  /\ sessionId = ""
  /\ analyzeContent

StartChatClick ==
  /\ sessionId = ""
  /\ ~(loading \/ youtubeUrl = "")
  /\ analyzeContent

NewSuggestionsClick ==
  /\ subject # null
  /\ ~loading
  /\ refreshSuggestions

MessageInputChange(t) ==
  /\ sessionId # ""
  /\ ~loading
  /\ message' = t
  /\ lastEvent' = Quiet("setMessage")
  /\ UNCHANGED <<youtubeUrl, sessionId, subject, loading, chatHistory, suggestions,
                 showSuggestions, inflight>>

MessageInputEnter ==
  /\ sessionId # ""
  /\ ~loading
  /\ sendMessage(<<>>)

SendClick ==
  /\ sessionId # ""
  /\ ~(loading \/ Trim(message) = <<>>)
  /\ sendMessage(<<>>)

ToggleSuggestionsClick ==
  /\ sessionId # ""
  /\ showSuggestions' = ~showSuggestions
  /\ lastEvent' = Quiet("setShowSuggestions")
  /\ UNCHANGED <<youtubeUrl, sessionId, subject, loading, chatHistory, message,
                 suggestions, inflight>>

\* sendMessage(suggestion); setShowSuggestions(false);
SuggestionClick(i) ==
  /\ sessionId # ""
  /\ showSuggestions
  /\ i \in 1..Len(suggestions)
  /\ IF ReturnsEarly(<<suggestions[i]>>)
       THEN /\ showSuggestions' = FALSE
            /\ lastEvent' = Quiet("sendMessage:return")
            /\ UNCHANGED <<youtubeUrl, sessionId, subject, loading, chatHistory,
                           message, suggestions, inflight>>
       ELSE sendMessage(<<suggestions[i]>>)

NewSessionClick(confirmed) ==
  /\ sessionId # ""
  /\ clearChat(confirmed)

(***************************************************************************)
(* The Gateway answers an outstanding call, in any order.                  *)
(***************************************************************************)
AnalyzeCompletes ==
  \E c \in BagToSet(inflight), outcome \in AnalyzeOutcomes :
    c.op = "analyze" /\ analyzeContentResume(c, outcome)

ChatCompletes ==
  \E c \in BagToSet(inflight), outcome \in ChatOutcomes :
    c.op = "chat" /\ sendMessageResume(c, outcome)

SuggestCompletes ==
  \E c \in BagToSet(inflight), outcome \in SuggestOutcomes :
    c.op = "suggest" /\ refreshSuggestionsResume(c, outcome)

(***************************************************************************)
(* The capture pipeline: the callback globalShortcut.register installs.    *)
(***************************************************************************)
\* Screen images, as bytes (Buffer).
Images == {<<137, 80>>, <<255, 216, 255>>}

ScreenshotErrors == {<<"screenshot failed">>}

Base64Alphabet ==
  <<"A", "B", "C", "D", "E", "F", "G", "H", "I", "J", "K", "L", "M", "N", "O", "P",
    "Q", "R", "S", "T", "U", "V", "W", "X", "Y", "Z", "a", "b", "c", "d", "e", "f",
    "g", "h", "i", "j", "k", "l", "m", "n", "o", "p", "q", "r", "s", "t", "u", "v",
    "w", "x", "y", "z", "0", "1", "2", "3", "4", "5", "6", "7", "8", "9", "+", "/">>

Base64Char(n) == Base64Alphabet[(n % 64) + 1]

\* Buffer.prototype.toString('base64')
RECURSIVE ToBase64(_)
ToBase64(bytes) ==
  IF bytes = <<>> THEN <<>>
  ELSE IF Len(bytes) = 1
    THEN LET n == bytes[1] * 65536
         IN <<Base64Char(n \div 262144), Base64Char(n \div 4096), "=", "=">>
  ELSE IF Len(bytes) = 2
    THEN LET n == bytes[1] * 65536 + bytes[2] * 256
         IN <<Base64Char(n \div 262144), Base64Char(n \div 4096),
              Base64Char(n \div 64), "=">>
  ELSE LET n == bytes[1] * 65536 + bytes[2] * 256 + bytes[3]
       IN <<Base64Char(n \div 262144), Base64Char(n \div 4096),
            Base64Char(n \div 64), Base64Char(n)>>
            \o ToBase64(SubSeq(bytes, 4, Len(bytes)))

\* What the Gateway can answer to capture-and-analyze: a body with
\* issue_detected, an error body without it, or no parsable body at all.
CaptureOutcomes ==
  {Json([issue_detected |-> TRUE, issue |-> <<"syntax error">>]),
   Json([issue_detected |-> FALSE]),
   Json([detail |-> <<"Internal Server Error">>])}
    \cup {Reject(m) : m \in TransportErrors}

\* if (data.issue_detected)
IssueDetected(data) == "issue_detected" \in DOMAIN data /\ data.issue_detected

NoRequest == [screenshot |-> <<>>]

\* An invocation of the callback, at await screenshot().
Capturing ==
  [phase |-> "capturing", request |-> NoRequest, requests |-> 0,
   response |-> NoOutcome, sent |-> 0]

\* The callback as it would be if it ignored the hotkey while an earlier
\* capture is in flight.
HotkeyPressedWhenIdle ==
  /\ presses < MaxTriggers
  /\ \A i \in 1..presses : triggers[i].phase \notin {"capturing", "analyzing"}
  /\ presses' = presses + 1
  /\ triggers' = [i \in 1..(presses + 1) |->
                    IF i = presses + 1 THEN Capturing ELSE triggers[i]]
  /\ UNCHANGED <<arrived, notifications, unhandled>>
  /\ UNCHANGED pageVars

\* The hotkey fires: the callback starts and suspends at await screenshot().
HotkeyPressed ==
  /\ presses < MaxTriggers
  /\ presses' = presses + 1
  /\ triggers' = [i \in 1..(presses + 1) |->
                    IF i = presses + 1 THEN Capturing ELSE triggers[i]]
  /\ UNCHANGED <<arrived, notifications, unhandled>>
  /\ UNCHANGED pageVars

\* screenshot() resolves: the image is encoded and the request is sent; the
\* callback returns without awaiting the fetch.
ScreenshotResolves(i, img) ==
  /\ triggers[i].phase = "capturing"
  /\ triggers' = [triggers EXCEPT ![i] =
                    [@ EXCEPT !.phase = "analyzing",
                              !.request = [screenshot |-> ToBase64(img)],
                              !.requests = @ + 1]]
  /\ UNCHANGED <<presses, arrived, notifications, unhandled>>
  /\ UNCHANGED pageVars

\* screenshot() rejects: the async callback rejects, and nothing handles it.
ScreenshotRejects(i, err) ==
  /\ triggers[i].phase = "capturing"
  /\ triggers' = [triggers EXCEPT ![i].phase = "captureFailed"]
  /\ unhandled' = Append(unhandled, [trigger |-> i, error |-> err])
  /\ UNCHANGED <<presses, arrived, notifications>>
  /\ UNCHANGED pageVars

\* The promise chain as it would be without the test of data.issue_detected.
CaptureAnalyzeSettlesAlwaysNotifies(i, outcome) ==
  /\ triggers[i].phase = "analyzing"
  /\ IF outcome.kind = "json"
       THEN /\ arrived' = Append(arrived, i)
            /\ notifications' =
                 Append(notifications,
                        [channel |-> "show-notification",
                         data |-> outcome.data, trigger |-> i])
            /\ triggers' = [triggers EXCEPT ![i] =
                              [@ EXCEPT !.phase = "done", !.response = outcome,
                                        !.sent = @ + 1]]
            /\ UNCHANGED unhandled
       ELSE /\ triggers' = [triggers EXCEPT ![i] =
                              [@ EXCEPT !.phase = "requestFailed", !.response = outcome]]
            /\ unhandled' = Append(unhandled, [trigger |-> i, error |-> outcome.message])
            /\ UNCHANGED <<arrived, notifications>>
  /\ UNCHANGED presses
  /\ UNCHANGED pageVars

\* The promise chain as it would be with a .catch that sends the request again.
CaptureAnalyzeSettlesRetries(i, outcome) ==
  /\ triggers[i].phase = "analyzing"
  /\ IF outcome.kind = "json"
       THEN /\ arrived' = Append(arrived, i)
            /\ IF IssueDetected(outcome.data)
                 THEN /\ notifications' =
                           Append(notifications,
                                  [channel |-> "show-notification",
                                   data |-> outcome.data, trigger |-> i])
                      /\ triggers' = [triggers EXCEPT ![i] =
                                        [@ EXCEPT !.phase = "done", !.response = outcome,
                                                  !.sent = @ + 1]]
                 ELSE /\ triggers' = [triggers EXCEPT ![i] =
                                        [@ EXCEPT !.phase = "done", !.response = outcome]]
                      /\ UNCHANGED notifications
            /\ UNCHANGED unhandled
       ELSE /\ triggers' = [triggers EXCEPT ![i] =
                              IF @.requests < 2
                                THEN [@ EXCEPT !.requests = @ + 1]
                                ELSE [@ EXCEPT !.phase = "requestFailed",
                                               !.response = outcome]]
            /\ unhandled' = IF triggers[i].requests < 2 THEN unhandled
                            ELSE Append(unhandled, [trigger |-> i, error |-> outcome.message])
            /\ UNCHANGED <<arrived, notifications>>
  /\ UNCHANGED presses
  /\ UNCHANGED pageVars

\* The promise chain of the fetch settles: .then(res => res.json()).then(...),
\* with no .catch.
CaptureAnalyzeSettles(i, outcome) ==
  /\ triggers[i].phase = "analyzing"
  /\ IF outcome.kind = "json"
       THEN /\ arrived' = Append(arrived, i)
            /\ IF IssueDetected(outcome.data)
                 THEN /\ notifications' =
                           Append(notifications,
                                  [channel |-> "show-notification",
                                   data |-> outcome.data, trigger |-> i])
                      /\ triggers' = [triggers EXCEPT ![i] =
                                        [@ EXCEPT !.phase = "done", !.response = outcome,
                                                  !.sent = @ + 1]]
                 ELSE /\ triggers' = [triggers EXCEPT ![i] =
                                        [@ EXCEPT !.phase = "done", !.response = outcome]]
                      /\ UNCHANGED notifications
            /\ UNCHANGED unhandled
       ELSE /\ triggers' = [triggers EXCEPT ![i] =
                              [@ EXCEPT !.phase = "requestFailed", !.response = outcome]]
            /\ unhandled' = Append(unhandled, [trigger |-> i, error |-> outcome.message])
            /\ UNCHANGED <<arrived, notifications>>
  /\ UNCHANGED presses
  /\ UNCHANGED pageVars

Init ==
  /\ youtubeUrl = ""
  /\ sessionId = ""
  /\ subject = null
  /\ loading = FALSE
  /\ chatHistory = <<>>
  /\ message = <<>>
  /\ suggestions = <<>>
  /\ showSuggestions = TRUE
  /\ inflight = EmptyBag
  /\ lastEvent = Quiet("mount")
  /\ presses = 0
  /\ triggers = <<>>
  /\ arrived = <<>>
  /\ notifications = <<>>
  /\ unhandled = <<>>

\* The page: the capture pipeline runs in another process.
Next ==
  \/ \E u \in TypedUrls : UrlInputChange(u) /\ UNCHANGED captureVars
  \/ \E u \in ExampleUrls : ExampleUrlClick(u) /\ UNCHANGED captureVars
  \/ UrlInputEnter /\ UNCHANGED captureVars
  \/ StartChatClick /\ UNCHANGED captureVars
  \/ NewSuggestionsClick /\ UNCHANGED captureVars
  \/ \E t \in Texts : MessageInputChange(t) /\ UNCHANGED captureVars
  \/ MessageInputEnter /\ UNCHANGED captureVars
  \/ SendClick /\ UNCHANGED captureVars
  \/ ToggleSuggestionsClick /\ UNCHANGED captureVars
  \/ \E i \in 1..Len(suggestions) : SuggestionClick(i) /\ UNCHANGED captureVars
  \/ \E confirmed \in BOOLEAN : NewSessionClick(confirmed) /\ UNCHANGED captureVars
  \/ AnalyzeCompletes /\ UNCHANGED captureVars
  \/ ChatCompletes /\ UNCHANGED captureVars
  \/ SuggestCompletes /\ UNCHANGED captureVars

\* The capture pipeline: the page takes no part in it.
CaptureNext ==
  \/ HotkeyPressed
  \/ \E i \in 1..presses, img \in Images : ScreenshotResolves(i, img)
  \/ \E i \in 1..presses, err \in ScreenshotErrors : ScreenshotRejects(i, err)
  \/ \E i \in 1..presses, outcome \in CaptureOutcomes : CaptureAnalyzeSettles(i, outcome)

Spec == Init /\ [][Next]_vars

CaptureSpec == Init /\ [][CaptureNext]_vars

(***************************************************************************)
(* The claims.                                                             *)
(***************************************************************************)
ResumeHandlers ==
  {"analyzeContent:resume", "sendMessage:resume", "refreshSuggestions:resume"}

\* The handler that ran last was the continuation of a call that failed.
FailedResume(e, handler) == e.handler = handler /\ ~Succeeded(e.outcome)

\* t occurs in s as a contiguous run of fragments.
Contains(s, t) ==
  \E i \in 1..(Len(s) - Len(t) + 1) : SubSeq(s, i, i + Len(t) - 1) = t

LastTurn == chatHistory[Len(chatHistory)]

\* C1: sessionId == "", subject == null and history empty are all true or all
\* false in every reachable state.  The code breaks it: a chat response that
\* arrives after a confirmed reset is appended to the emptied history.
C1_SessionExistenceAgrees ==
  /\ (sessionId = "") = (subject = null)
  /\ (subject = null) = (chatHistory = <<>>)

\* C2: at most one Controller-initiated Gateway call is outstanding at any
\* time.  The code breaks it: Enter in the URL input and a click on a
\* suggestion do not look at loading.
C2_SingleFlight == Outstanding <= 1

\* C3: the continuation of every call sets busy = false, whatever the outcome
\* of the call, and busy is true only while some call is outstanding.
C3_BusyCleared ==
  /\ lastEvent.handler \in ResumeHandlers => loading = FALSE
  /\ loading => Outstanding > 0

\* C3 witness: a chat call ended in a transport error and busy is false.
C3_Witness ==
  /\ lastEvent.handler = "sendMessage:resume"
  /\ lastEvent.outcome.kind = "reject"
  /\ loading = FALSE

\* C4: right after an accepted sendMessage(text), while its chat call is
\* outstanding, the last Turn of history is {role: "user", content: text}.
C4_OptimisticAppend ==
  lastEvent.handler = "sendMessage" =>
    /\ BagIn(lastEvent.call, inflight)
    /\ lastEvent.call.op = "chat"
    /\ chatHistory # <<>>
    /\ LastTurn = [role |-> "user", content |-> lastEvent.call.body.message]

\* C4 witness: the user Turn is shown while the answer is awaited.
C4_Witness ==
  /\ lastEvent.handler = "sendMessage"
  /\ loading
  /\ Len(chatHistory) >= 2
  /\ LastTurn.role = "user"
  /\ LastTurn.content = <<"w", "h", "y", "?">>

\* C5: the continuation of a failed chat call leaves history as it is (the
\* user Turn is not rolled back, no assistant Turn is appended), shows a
\* blocking error and leaves busy false.
C5_ChatFailureKeepsUserTurn ==
  [][FailedResume(lastEvent', "sendMessage:resume") =>
       /\ chatHistory' = chatHistory
       /\ lastEvent'.alert # NoAlert
       /\ loading' = FALSE]_vars

\* C5 witness: the chat call failed and history still ends with its user Turn.
C5_Witness ==
  /\ FailedResume(lastEvent, "sendMessage:resume")
  /\ chatHistory # <<>>
  /\ LastTurn = [role |-> "user", content |-> lastEvent.call.body.message]
  /\ lastEvent.alert # NoAlert
  /\ loading = FALSE

\* C6: after a failed startSession sessionId is "", subject is null, history
\* is empty and an error is surfaced.  The code breaks it when two calls
\* overlap (C2): the session the other call created is still there.
C6_FailedStartLeavesNoSession ==
  FailedResume(lastEvent, "analyzeContent:resume") =>
    /\ sessionId = ""
    /\ subject = null
    /\ chatHistory = <<>>
    /\ lastEvent.alert # NoAlert

\* C7: refreshSuggestions that fails changes nothing but busy: neither the
\* step that issues the call nor the continuation of the failed call changes
\* suggestions, suggestionsVisible, history, subject or sessionId, no
\* blocking error is shown, and busy ends false.
C7_FailedRefreshFrame ==
  [][/\ lastEvent'.handler = "refreshSuggestions" =>
          /\ UNCHANGED <<suggestions, showSuggestions, chatHistory, subject,
                         sessionId, message, youtubeUrl>>
          /\ loading' = TRUE
     /\ FailedResume(lastEvent', "refreshSuggestions:resume") =>
          /\ UNCHANGED <<suggestions, showSuggestions, chatHistory, subject,
                         sessionId, message, youtubeUrl>>
          /\ lastEvent'.alert = NoAlert
          /\ loading' = FALSE]_vars

\* C7 witness: a refresh failed while suggestions were shown; they still are.
C7_Witness ==
  /\ FailedResume(lastEvent, "refreshSuggestions:resume")
  /\ suggestions # <<>>
  /\ showSuggestions
  /\ loading = FALSE

\* C8: a declined resetSession changes no field of the Session and no
\* pending input text.
C8_DeclinedResetFrame ==
  [][lastEvent'.handler = "clearChat:declined" =>
       UNCHANGED <<sessionId, subject, chatHistory, suggestions, showSuggestions,
                   loading, message, youtubeUrl, inflight>>]_vars

\* C8 witness: the prompt was declined in a session with a question asked,
\* text in the message input and a call outstanding.
C8_Witness ==
  /\ lastEvent.handler = "clearChat:declined"
  /\ sessionId # ""
  /\ Len(chatHistory) >= 2
  /\ message # <<>>
  /\ loading

\* C9: right after a confirmed resetSession every Session field is reset and
\* both the URL input and the message input are empty.  The code breaks it:
\* clearChat never calls setMessage('').
C9_ConfirmedResetClearsAll ==
  lastEvent.handler = "clearChat:confirmed" =>
    /\ sessionId = ""
    /\ subject = null
    /\ chatHistory = <<>>
    /\ suggestions = <<>>
    /\ showSuggestions = FALSE
    /\ youtubeUrl = ""
    /\ message = <<>>

\* C10: right after a successful startSession, sessionId, subject and
\* suggestions are the response's (suggestions empty when the field is
\* absent), suggestionsVisible is true, busy is false and history is one
\* assistant Turn whose content contains subject.subject and subject.topic.
C10_StartSessionSuccess ==
  (lastEvent.handler = "analyzeContent:resume" /\ Succeeded(lastEvent.outcome)) =>
    LET data == lastEvent.outcome.data
    IN /\ sessionId = data.session_id
       /\ subject = data.subject
       /\ "suggested_questions" \in DOMAIN data => suggestions = data.suggested_questions
       /\ "suggested_questions" \notin DOMAIN data => suggestions = <<>>
       /\ showSuggestions = TRUE
       /\ loading = FALSE
       /\ Len(chatHistory) = 1
       /\ chatHistory[1].role = "assistant"
       /\ Contains(chatHistory[1].content, data.subject.subject)
       /\ Contains(chatHistory[1].content, data.subject.topic)

\* C10 witness: a session started from a response without suggested_questions.
C10_Witness ==
  /\ lastEvent.handler = "analyzeContent:resume"
  /\ Succeeded(lastEvent.outcome)
  /\ "suggested_questions" \notin DOMAIN lastEvent.outcome.data
  /\ sessionId = "s2"
  /\ suggestions = <<>>
  /\ Len(chatHistory) = 1

IsPrefix(a, b) == Len(a) <= Len(b) /\ SubSeq(b, 1, Len(a)) = a

\* C11: while a session is active, a step that changes history only appends
\* Turns at its end.  The code breaks it when two analyze calls overlap (C2):
\* the second success replaces the history of the session the first created.
C11_HistoryAppendOnly ==
  [][(sessionId # "" /\ sessionId' # "") => IsPrefix(chatHistory, chatHistory')]_vars

\* C12: busy is true whenever a Controller call is outstanding.  The code
\* breaks it when calls overlap (C2): each continuation ends with
\* setLoading(false), whatever else is outstanding.
C12_BusyWhileOutstanding == Outstanding > 0 => loading

Failed(t) == t.phase \in {"captureFailed", "requestFailed"}

\* The invocations that completed with issue_detected true.
DoneWithIssue ==
  {i \in 1..presses :
     /\ triggers[i].phase = "done"
     /\ "issue_detected" \in DOMAIN triggers[i].response.data
     /\ triggers[i].response.data.issue_detected = TRUE}

NotificationsOf(i) == {k \in 1..Len(notifications) : notifications[k].trigger = i}

\* C13: a trigger that completed sent exactly one notification, carrying the
\* whole response body, if issue_detected is true, and none if it is false;
\* the notifications sent are as many as the triggers completed with
\* issue_detected true.
C13_OneNotificationPerIssue ==
  /\ \A i \in 1..presses :
       triggers[i].phase = "done" =>
         IF i \in DoneWithIssue
           THEN /\ triggers[i].sent = 1
                /\ Cardinality(NotificationsOf(i)) = 1
                /\ \A k \in NotificationsOf(i) :
                     /\ notifications[k].channel = "show-notification"
                     /\ notifications[k].data = triggers[i].response.data
           ELSE /\ triggers[i].sent = 0
                /\ NotificationsOf(i) = {}
  /\ Len(notifications) = Cardinality(DoneWithIssue)

\* C13 witness: one trigger completed with an issue and was notified, another
\* completed without an issue.
C13_Witness ==
  /\ Len(notifications) = 1
  /\ notifications[1].data.issue = <<"syntax error">>
  /\ \E i \in 1..presses :
       /\ triggers[i].phase = "done"
       /\ triggers[i].response = Json([issue_detected |-> FALSE])

\* C14: a trigger that failed (the capture or the request) sent no
\* notification and at most one request, and nothing more happens for it; the
\* hotkey still starts a new trigger.
C14_FailedTriggerDropped ==
  /\ [][\A i \in 1..presses' :
          Failed(triggers'[i]) =>
            /\ triggers'[i].sent = 0
            /\ \A k \in 1..Len(notifications') : notifications'[k].trigger # i
            /\ triggers'[i].requests <= 1
            /\ triggers'[i].phase = "captureFailed" => triggers'[i].requests = 0
            /\ (i <= presses /\ Failed(triggers[i])) => triggers'[i] = triggers[i]]_vars
  /\ []((presses < MaxTriggers /\ \E i \in 1..presses : Failed(triggers[i]))
          => ENABLED HotkeyPressed)

\* C14 witness: the first trigger's request failed, the second trigger was
\* processed and notified.
C14_Witness ==
  /\ presses >= 2
  /\ triggers[1].phase = "requestFailed"
  /\ triggers[2].phase = "done"
  /\ triggers[2].sent = 1

\* C15: no error escapes uncaught at any call site.  The code breaks it in
\* the capture pipeline: the hotkey callback has no try/catch and its promise
\* chain no .catch, so a failed capture or request is an unhandled rejection.
C15_NoUnhandledError == unhandled = <<>>

\* C16: a confirmed reset cancels no outstanding call, and the success
\* response of a chat or suggest call is applied to the state it finds: the
\* assistant Turn is appended to the history of that moment, or suggestions
\* is replaced and shown; busy is cleared.
C16_LateResponseApplied ==
  [][/\ lastEvent'.handler = "clearChat:confirmed" => inflight' = inflight
     /\ (lastEvent'.handler = "sendMessage:resume" /\ Succeeded(lastEvent'.outcome)) =>
          /\ chatHistory' = chatHistory \o
                              <<[role |-> "assistant",
                                 content |-> lastEvent'.outcome.data.response]>>
          /\ loading' = FALSE
     /\ (lastEvent'.handler = "refreshSuggestions:resume"
           /\ Succeeded(lastEvent'.outcome)) =>
          /\ suggestions' = lastEvent'.outcome.data.suggestions
          /\ showSuggestions' = TRUE
          /\ loading' = FALSE]_vars

\* C16 witness: the answer of a chat call made before a confirmed reset is
\* the only Turn of the history the reset emptied.
C16_Witness ==
  /\ lastEvent.handler = "sendMessage:resume"
  /\ Succeeded(lastEvent.outcome)
  /\ sessionId = ""
  /\ lastEvent.call.body.session_id # ""
  /\ chatHistory = <<[role |-> "assistant", content |-> lastEvent.outcome.data.response]>>
  /\ loading = FALSE

ReturnHandlers ==
  {"analyzeContent:return", "sendMessage:return", "refreshSuggestions:return"}

C18_ConcurrentTriggers ==
  /\ DOMAIN triggers = 1..presses
  /\ \A i \in 1..presses :
       /\ triggers[i].phase \in {"capturing", "captureFailed"} => triggers[i].requests = 0
       /\ triggers[i].phase \in {"analyzing", "done", "requestFailed"} =>
            triggers[i].requests = 1
  /\ [k \in 1..Len(notifications) |-> notifications[k].trigger]
       = SelectSeq(arrived, LAMBDA i : i \in DoneWithIssue)
  /\ presses < MaxTriggers => ENABLED HotkeyPressed

\* C18 witness: two triggers overlapped and the later one was notified first.
C18_Witness ==
  /\ Len(notifications) >= 2
  /\ notifications[1].trigger > notifications[2].trigger

\* C19: an assistant Turn other than the welcome answers a chat call made for
\* the session that is current when it is appended.  The code breaks it: the
\* continuation never compares the call's session_id with sessionId.
C19_AnswersCurrentSession ==
  (lastEvent.handler = "sendMessage:resume" /\ Succeeded(lastEvent.outcome)) =>
    lastEvent.call.body.session_id = sessionId

\* C20: suggestions is empty whenever sessionId == "".  The code breaks it: a
\* suggest response that arrives after a confirmed reset sets suggestions.
C20_NoSuggestionsWithoutSession == sessionId = "" => suggestions = <<>>

====
